---- MODULE Spec2Model ----
(***************************************************************************)
(* Anomaly-detection service of ai_ml_service/main_improved.py: the        *)
(* per-device AnomalyDetector (train / predict), the model files under     *)
(* MODELS_DIR (save_model / load_model), the process-wide cache            *)
(* anomaly_detectors and the endpoints that use them.                      *)
(*                                                                         *)
(* Observations are floats in the program; here they are drawn from the    *)
(* small set Values.  The handlers are `async def` without any await, so   *)
(* each one runs to completion on the event loop: one action per handler.  *)
(***************************************************************************)
EXTENDS Integers, Sequences, FiniteSets, TLC

VARIABLES
    anomaly_detectors,  \* the global cache: device id -> detector object
    models_dir,         \* the files under MODELS_DIR: path -> pickled object
    det,                \* a Detector used directly, as the unit tests do
    next_id,            \* identity of the next Python object constructed
    PROPHET_AVAILABLE,  \* whether `from prophet import Prophet` succeeded
    evicted,            \* history: device ids cleared and not looked up since
    trained_ids,        \* history: device ids trained and not cleared since
    last,               \* what the last operation was given and returned
    nops,               \* operations performed so far
    tasks,              \* the handler coroutines on the event loop, with their position
    running,            \* the coroutine the event loop is executing, 0 when idle
    orphans             \* detectors a coroutine still holds after `del` from the cache

vars == <<anomaly_detectors, models_dir, det, next_id, PROPHET_AVAILABLE, evicted,
          trained_ids, last, nops, tasks, running, orphans>>

---------------------------------------------------------------------------
(* Bounds of the exploration *)

MaxOps == 3         \* endpoint calls per behaviour of Spec

MaxCalls == 4       \* direct train / predict calls per behaviour of SpecDetector

MaxFaultOps == 3    \* endpoint calls per behaviour of SpecFaults

MaxPlanOps == 1     \* forecast / schedule calls per behaviour of SpecPlanning

MaxTasks == 2       \* requests per behaviour of SpecLoop

---------------------------------------------------------------------------
(* Program constants *)

MIN_TRAIN == 10         \* train: if len(data) >= 10

BASELINE_CAP == 1000    \* predict: self.baseline[-1000:]

RETRAIN_EVERY == 100    \* predict: len(self.baseline) % 100 == 0

MIN_POINTS == 10        \* detect_anomalies: if len(values) < 10

INV_CONTAMINATION == 10 \* IsolationForest(contamination=0.1): 1 / 0.1

MIN_USAGE == 24         \* calculate_energy_savings: len(historical_usage) < 24

MIN_SAVINGS == 1000     \* calculate_energy_savings: max(10.0, ...), in hundredths

MAX_SAVINGS == 4000     \* calculate_energy_savings: min(40.0, ...), in hundredths

LOW_BUDGET == 50        \* build_optimized_schedule: if budget < 50

---------------------------------------------------------------------------
(* Data *)

Values == {1, 2}

\* float("nan") and float("inf"): json.loads and List[float] accept both
NaN == -1

Infinity == -2

NonFinite == {NaN, Infinity}

HasNonFinite(data) == \E i \in 1..Len(data) : data[i] \in NonFinite

\* Device ids and file names are strings; they are kept as sequences of
\* tokens so that f"{device_id}_{model_type}.pkl" and the glob
\* f"{device_id}_*.pkl" can be computed.
DeviceIds == { <<"dev">>, <<"dev", "_", "1">> }

\* device_id is any str: the ids above and one with brackets in it
AnyDeviceIds == DeviceIds \cup { <<"dev", "[1]">> }

\* device_id is any str: "dev" and "./dev"
AliasDeviceIds == { <<"dev">>, <<"./", "dev">> }

EmptyMap == [x \in {} |-> x]

Fill(v, n) == [i \in 1..n |-> v]

Indices(n) == [i \in 1..n |-> i]

Count(s, v) == Cardinality({i \in 1..Len(s) : s[i] = v})

Max(a, b) == IF a >= b THEN a ELSE b

Min(a, b) == IF a <= b THEN a ELSE b

\* s[-n:]
LastN(s, n) == IF Len(s) <= n THEN s ELSE SubSeq(s, Len(s) - n + 1, Len(s))

\* d with key k set to v (d[k] = v)
DictSet(d, k, v) == [x \in (DOMAIN d) \cup {k} |-> IF x = k THEN v ELSE d[x]]

\* d without the keys in ks (del d[k], unlink)
DictDel(d, ks) == [x \in (DOMAIN d) \ ks |-> d[x]]

---------------------------------------------------------------------------
(* The Model: sklearn's IsolationForest(contamination=0.1, random_state=42).
   It is a library, not code of the service.  What the service relies on is
   kept: fit replaces the fitted state by one derived from the batch alone;
   decision_function and predict are deterministic functions of the fitted
   state and the point; predict is -1 exactly where decision_function is
   negative; with contamination 0.1 the rarest tenth is the outlier side.
   The fitted state is the histogram of the batch and a point is an outlier
   when its value makes up less than a tenth of the batch. *)

IsolationForest == [fitted |-> FALSE, n |-> 0, hist |-> [v \in Values |-> 0]]

model_fit(data) ==
    [fitted |-> TRUE, n |-> Len(data), hist |-> [v \in Values |-> Count(data, v)]]

decision_function(model, x) == INV_CONTAMINATION * model.hist[x] - model.n

model_predict(model, x) == IF decision_function(model, x) < 0 THEN -1 ELSE 1

---------------------------------------------------------------------------
(* Model persistence *)

\* pathlib drops the "." components of what it is given: MODELS_DIR / "./x" is
\* the path MODELS_DIR / "x"
PurePath(p) == SelectSeq(p, LAMBDA t : t # "./")

\* MODELS_DIR / f"{device_id}_{model_type}.pkl"
ModelPath(device_id, model_type) == PurePath(device_id \o <<"_", model_type, ".pkl">>)

\* joblib.dump: the object's attributes, without its identity
Pickle(obj) == [a \in (DOMAIN obj) \ {"id"} |-> obj[a]]

\* joblib.load that gives back a detector with trained reset
Unpickle_untrained(p, id) ==
    [a \in (DOMAIN p) \cup {"id"} |->
        IF a = "id" THEN id ELSE IF a = "trained" THEN FALSE ELSE p[a]]

\* joblib.load: a new object with the pickled attributes
Unpickle(p, id) == [a \in (DOMAIN p) \cup {"id"} |-> IF a = "id" THEN id ELSE p[a]]

\* save_model: the files after the call; io_ok = FALSE is joblib.dump raising,
\* which is caught and logged
save_model(files, device_id, model_type, obj, io_ok) ==
    IF io_ok THEN DictSet(files, ModelPath(device_id, model_type), Pickle(obj))
    ELSE files

\* load_model: TRUE when the call returns an object and not None; io_ok = FALSE
\* is joblib.load raising, which is caught and logged
load_model_found(files, device_id, model_type, io_ok) ==
    io_ok /\ ModelPath(device_id, model_type) \in DOMAIN files

load_model(files, device_id, model_type, id) ==
    Unpickle(files[ModelPath(device_id, model_type)], id)

---------------------------------------------------------------------------
(* class AnomalyDetector *)

\* __init__ with self.trained = True
AnomalyDetector_trained(device_id, id) ==
    [id |-> id, device_id |-> device_id, model |-> IsolationForest,
     trained |-> TRUE, baseline |-> <<>>]

\* __init__
AnomalyDetector(device_id, id) ==
    [id |-> id, device_id |-> device_id, model |-> IsolationForest,
     trained |-> FALSE, baseline |-> <<>>]

\* train with the size test off by one (> instead of >=)
train_strict(self, data, files, io_ok) ==
    IF Len(data) > MIN_TRAIN
    THEN LET fitted == [self EXCEPT !.model = model_fit(data),
                                    !.baseline = data,
                                    !.trained = TRUE]
         IN  [self |-> fitted,
              files |-> save_model(files, self.device_id, "anomaly", fitted, io_ok),
              fits |-> 1, saves |-> 1, raised |-> FALSE]
    ELSE [self |-> self, files |-> files, fits |-> 0, saves |-> 0, raised |-> FALSE]

\* train without the call of self.model.fit
train_nofit(self, data, files, io_ok) ==
    IF Len(data) >= MIN_TRAIN
    THEN LET unfitted == [self EXCEPT !.baseline = data, !.trained = TRUE]
         IN  [self |-> unfitted,
              files |-> save_model(files, self.device_id, "anomaly", unfitted, io_ok),
              fits |-> 0, saves |-> 1, raised |-> FALSE]
    ELSE [self |-> self, files |-> files, fits |-> 0, saves |-> 0, raised |-> FALSE]

\* train that keeps the old state when the save fails
train_transactional(self, data, files, io_ok) ==
    IF Len(data) >= MIN_TRAIN
    THEN LET fitted == [self EXCEPT !.model = model_fit(data),
                                    !.baseline = data,
                                    !.trained = TRUE]
         IN  [self |-> IF io_ok THEN fitted ELSE self,
              files |-> save_model(files, self.device_id, "anomaly", fitted, io_ok),
              fits |-> 1, saves |-> 1, raised |-> FALSE]
    ELSE [self |-> self, files |-> files, fits |-> 0, saves |-> 0, raised |-> FALSE]

\* train that saves before it updates the detector
train_save_stale(self, data, files, io_ok) ==
    IF Len(data) >= MIN_TRAIN
    THEN LET fitted == [self EXCEPT !.model = model_fit(data),
                                    !.baseline = data,
                                    !.trained = TRUE]
         IN  [self |-> fitted,
              files |-> save_model(files, self.device_id, "anomaly", self, io_ok),
              fits |-> 1, saves |-> 1, raised |-> FALSE]
    ELSE [self |-> self, files |-> files, fits |-> 0, saves |-> 0, raised |-> FALSE]

\* train that keeps an undersized batch as the baseline
train_absorb(self, data, files, io_ok) ==
    IF Len(data) >= MIN_TRAIN
    THEN LET fitted == [self EXCEPT !.model = model_fit(data),
                                    !.baseline = data,
                                    !.trained = TRUE]
         IN  [self |-> fitted,
              files |-> save_model(files, self.device_id, "anomaly", fitted, io_ok),
              fits |-> 1, saves |-> 1, raised |-> FALSE]
    ELSE [self |-> [self EXCEPT !.baseline = data], files |-> files,
          fits |-> 0, saves |-> 0, raised |-> FALSE]

\* train: the detector and the files after the call, and how many times the
\* model was fit and the detector saved.  self.model.fit raises ValueError
\* (sklearn's input validation) on NaN or infinity, before any assignment.
train(self, data, files, io_ok) ==
    IF Len(data) >= MIN_TRAIN /\ HasNonFinite(data)
    THEN [self |-> self, files |-> files, fits |-> 0, saves |-> 0, raised |-> TRUE]
    ELSE IF Len(data) >= MIN_TRAIN
    THEN LET fitted == [self EXCEPT !.model = model_fit(data),
                                    !.baseline = data,
                                    !.trained = TRUE]
         IN  [self |-> fitted,
              files |-> save_model(files, self.device_id, "anomaly", fitted, io_ok),
              fits |-> 1, saves |-> 1, raised |-> FALSE]
    ELSE [self |-> self, files |-> files, fits |-> 0, saves |-> 0, raised |-> FALSE]

\* the retrain test with >= 100 instead of % 100 == 0
RetrainDue_ge(baseline) == Len(baseline) >= RETRAIN_EVERY

\* the retrain test that stops firing once the baseline is at its cap
RetrainDue_below_cap(baseline) ==
    Len(baseline) % RETRAIN_EVERY = 0 /\ Len(baseline) < BASELINE_CAP

\* the retrain test of predict
RetrainDue(baseline) == Len(baseline) % RETRAIN_EVERY = 0

\* the slice taken from the front: self.baseline[:1000]
MaintainBaseline_head(baseline, normal_points) ==
    SubSeq(baseline \o normal_points, 1, Min(Len(baseline \o normal_points), BASELINE_CAP))

\* the baseline after predict's extend and slice
MaintainBaseline(baseline, normal_points) ==
    LastN(baseline \o normal_points, BASELINE_CAP)

\* the branch of predict taken by a detector that is not trained
predict_untrained(self, new_data, files, io_ok) ==
    LET t == train(self, new_data, files, io_ok)
    IN  [self |-> t.self, files |-> t.files, fits |-> t.fits, saves |-> t.saves,
         raised |-> t.raised, error |-> IF t.raised THEN "ValueError" ELSE "",
         anomalies |-> <<>>, scores |-> <<>>]

\* predict_trained that extends the baseline with the whole batch
predict_trained_all(self, new_data, files, io_ok) ==
    LET n == Len(new_data)
        scores == [i \in 1..n |-> decision_function(self.model, new_data[i])]
        predictions == [i \in 1..n |-> model_predict(self.model, new_data[i])]
        anomaly_idx == SelectSeq(Indices(n), LAMBDA i : predictions[i] = -1)
        anomalies == [k \in 1..Len(anomaly_idx) |-> anomaly_idx[k] - 1]
        extended == [self EXCEPT !.baseline = MaintainBaseline(self.baseline, new_data)]
        t == IF RetrainDue(extended.baseline)
             THEN train(extended, extended.baseline, files, io_ok)
             ELSE [self |-> extended, files |-> files, fits |-> 0, saves |-> 0, raised |-> FALSE]
    IN  [self |-> t.self, files |-> t.files, fits |-> t.fits, saves |-> t.saves,
         raised |-> FALSE, error |-> "", anomalies |-> anomalies, scores |-> scores]

\* predict_trained with the indices counted from 1
predict_trained_one_based(self, new_data, files, io_ok) ==
    LET n == Len(new_data)
        scores == [i \in 1..n |-> decision_function(self.model, new_data[i])]
        predictions == [i \in 1..n |-> model_predict(self.model, new_data[i])]
        \* enumerate() counts from 0
        anomaly_idx == SelectSeq(Indices(n), LAMBDA i : predictions[i] = -1)
        anomalies == anomaly_idx
        normal_idx == SelectSeq(Indices(n), LAMBDA i : predictions[i] = 1)
        normal_points == [k \in 1..Len(normal_idx) |-> new_data[normal_idx[k]]]
        extended == [self EXCEPT !.baseline = MaintainBaseline(self.baseline, normal_points)]
        t == IF Len(normal_points) > 0
             THEN IF RetrainDue(extended.baseline)
                  THEN train(extended, extended.baseline, files, io_ok)
                  ELSE [self |-> extended, files |-> files, fits |-> 0, saves |-> 0, raised |-> FALSE]
             ELSE [self |-> self, files |-> files, fits |-> 0, saves |-> 0, raised |-> FALSE]
    IN  [self |-> t.self, files |-> t.files, fits |-> t.fits, saves |-> t.saves,
         raised |-> FALSE, error |-> "", anomalies |-> anomalies, scores |-> scores]

\* predict_trained that resets self.trained when no point is normal
predict_trained_forget(self, new_data, files, io_ok) ==
    LET n == Len(new_data)
        scores == [i \in 1..n |-> decision_function(self.model, new_data[i])]
        predictions == [i \in 1..n |-> model_predict(self.model, new_data[i])]
        \* enumerate() counts from 0
        anomaly_idx == SelectSeq(Indices(n), LAMBDA i : predictions[i] = -1)
        anomalies == [k \in 1..Len(anomaly_idx) |-> anomaly_idx[k] - 1]
        normal_idx == SelectSeq(Indices(n), LAMBDA i : predictions[i] = 1)
        normal_points == [k \in 1..Len(normal_idx) |-> new_data[normal_idx[k]]]
        extended == [self EXCEPT !.baseline = MaintainBaseline(self.baseline, normal_points)]
        t == IF Len(normal_points) > 0
             THEN IF RetrainDue(extended.baseline)
                  THEN train(extended, extended.baseline, files, io_ok)
                  ELSE [self |-> extended, files |-> files, fits |-> 0, saves |-> 0, raised |-> FALSE]
             ELSE [self |-> [self EXCEPT !.trained = FALSE], files |-> files,
                   fits |-> 0, saves |-> 0, raised |-> FALSE]
    IN  [self |-> t.self, files |-> t.files, fits |-> t.fits, saves |-> t.saves,
         raised |-> FALSE, error |-> "", anomalies |-> anomalies, scores |-> scores]

\* predict_trained that saves the detector after every append to the baseline
predict_trained_save_always(self, new_data, files, io_ok) ==
    LET n == Len(new_data)
        scores == [i \in 1..n |-> decision_function(self.model, new_data[i])]
        predictions == [i \in 1..n |-> model_predict(self.model, new_data[i])]
        \* enumerate() counts from 0
        anomaly_idx == SelectSeq(Indices(n), LAMBDA i : predictions[i] = -1)
        anomalies == [k \in 1..Len(anomaly_idx) |-> anomaly_idx[k] - 1]
        normal_idx == SelectSeq(Indices(n), LAMBDA i : predictions[i] = 1)
        normal_points == [k \in 1..Len(normal_idx) |-> new_data[normal_idx[k]]]
        extended == [self EXCEPT !.baseline = MaintainBaseline(self.baseline, normal_points)]
        t == IF Len(normal_points) > 0
             THEN IF RetrainDue(extended.baseline)
                  THEN train(extended, extended.baseline, files, io_ok)
                  ELSE [self |-> extended,
                        files |-> save_model(files, self.device_id, "anomaly", extended, io_ok),
                        fits |-> 0, saves |-> 1, raised |-> FALSE]
             ELSE [self |-> self, files |-> files, fits |-> 0, saves |-> 0, raised |-> FALSE]
    IN  [self |-> t.self, files |-> t.files, fits |-> t.fits, saves |-> t.saves,
         raised |-> FALSE, error |-> "", anomalies |-> anomalies, scores |-> scores]

\* the branch of predict taken by a trained detector
predict_trained(self, new_data, files, io_ok) ==
    LET n == Len(new_data)
        scores == [i \in 1..n |-> decision_function(self.model, new_data[i])]
        predictions == [i \in 1..n |-> model_predict(self.model, new_data[i])]
        \* enumerate() counts from 0
        anomaly_idx == SelectSeq(Indices(n), LAMBDA i : predictions[i] = -1)
        anomalies == [k \in 1..Len(anomaly_idx) |-> anomaly_idx[k] - 1]
        normal_idx == SelectSeq(Indices(n), LAMBDA i : predictions[i] = 1)
        normal_points == [k \in 1..Len(normal_idx) |-> new_data[normal_idx[k]]]
        extended == [self EXCEPT !.baseline = MaintainBaseline(self.baseline, normal_points)]
        t == IF Len(normal_points) > 0
             THEN IF RetrainDue(extended.baseline)
                  THEN train(extended, extended.baseline, files, io_ok)
                  ELSE [self |-> extended, files |-> files, fits |-> 0, saves |-> 0, raised |-> FALSE]
             ELSE [self |-> self, files |-> files, fits |-> 0, saves |-> 0, raised |-> FALSE]
    IN  [self |-> t.self, files |-> t.files, fits |-> t.fits, saves |-> t.saves,
         raised |-> FALSE, error |-> "", anomalies |-> anomalies, scores |-> scores]

\* predict.  decision_function raises before anything is changed when the
\* model was never fit (NotFittedError) and when the batch has no element or
\* has a NaN or an infinity (ValueError of sklearn's input validation).
predict(self, new_data, files, io_ok) ==
    IF ~self.trained
    THEN predict_untrained(self, new_data, files, io_ok)
    ELSE IF ~self.model.fitted \/ Len(new_data) = 0 \/ HasNonFinite(new_data)
         THEN [self |-> self, files |-> files, fits |-> 0, saves |-> 0,
               raised |-> TRUE,
               error |-> IF ~self.model.fitted THEN "NotFittedError" ELSE "ValueError",
               anomalies |-> <<>>, scores |-> <<>>]
         ELSE predict_trained(self, new_data, files, io_ok)

---------------------------------------------------------------------------
(* Endpoints *)

\* "Get or create detector" of detect_anomalies: how the detector is found
Resolution(reg, files, device_id, load_ok) ==
    IF device_id \in DOMAIN reg THEN "cached"
    ELSE IF load_model_found(files, device_id, "anomaly", load_ok) THEN "loaded"
    ELSE "created"

\* get_or_create without the test `device_id not in anomaly_detectors`
get_or_create_nocache(reg, files, device_id, id, load_ok) ==
    IF load_model_found(files, device_id, "anomaly", load_ok)
    THEN DictSet(reg, device_id, load_model(files, device_id, "anomaly", id))
    ELSE DictSet(reg, device_id, AnomalyDetector(device_id, id))

\* get_or_create that never looks at the files
get_or_create_noload(reg, files, device_id, id, load_ok) ==
    IF device_id \in DOMAIN reg
    THEN reg
    ELSE DictSet(reg, device_id, AnomalyDetector(device_id, id))

\* "Get or create detector" of detect_anomalies: the cache after it
get_or_create(reg, files, device_id, id, load_ok) ==
    IF device_id \in DOMAIN reg
    THEN reg
    ELSE IF load_model_found(files, device_id, "anomaly", load_ok)
         THEN DictSet(reg, device_id, load_model(files, device_id, "anomaly", id))
         ELSE DictSet(reg, device_id, AnomalyDetector(device_id, id))

\* detect_anomalies with the detector looked up before the size test
detect_anomalies_lookup_first(reg, files, id, device_id, values, load_ok, save_ok) ==
    LET reg1 == get_or_create(reg, files, device_id, id, load_ok)
        detector == reg1[device_id]
        r == predict(detector, values, files, save_ok)
    IN  IF Len(values) < MIN_POINTS
        THEN [reg |-> reg1, files |-> files, status |-> 500, raised |-> 400, error |-> "HTTPException",
              resolved |-> "none", was_trained |-> FALSE, old_len |-> 0,
              fits |-> 0, saves |-> 0, anomalies |-> <<>>, scores |-> <<>>]
        ELSE [reg |-> DictSet(reg1, device_id, r.self), files |-> r.files,
              status |-> IF r.raised THEN 500 ELSE 200, raised |-> 0, error |-> r.error,
              resolved |-> Resolution(reg, files, device_id, load_ok),
              was_trained |-> detector.trained, old_len |-> Len(detector.baseline),
              fits |-> r.fits, saves |-> r.saves,
              anomalies |-> r.anomalies, scores |-> r.scores]

\* detect_anomalies: the cache, the files and the response.  The
\* HTTPException(400) is raised inside the try block and `except Exception`
\* turns it, like every other exception, into a 500.
detect_anomalies(reg, files, id, device_id, values, load_ok, save_ok) ==
    IF Len(values) < MIN_POINTS
    THEN [reg |-> reg, files |-> files, status |-> 500, raised |-> 400, error |-> "HTTPException",
          resolved |-> "none", was_trained |-> FALSE, old_len |-> 0,
          fits |-> 0, saves |-> 0, anomalies |-> <<>>, scores |-> <<>>]
    ELSE LET reg1 == get_or_create(reg, files, device_id, id, load_ok)
             detector == reg1[device_id]
             r == predict(detector, values, files, save_ok)
         IN  [reg |-> DictSet(reg1, device_id, r.self), files |-> r.files,
              status |-> IF r.raised THEN 500 ELSE 200, raised |-> 0, error |-> r.error,
              resolved |-> Resolution(reg, files, device_id, load_ok),
              was_trained |-> detector.trained, old_len |-> Len(detector.baseline),
              fits |-> r.fits, saves |-> r.saves,
              anomalies |-> r.anomalies, scores |-> r.scores]

\* fnmatch of one token of a glob pattern against one token of a file name:
\* "[1]" in a pattern is a character class, it matches "1" and not "[1]"
TokenMatch(pattern, name) == IF pattern = "[1]" THEN name = "1" ELSE pattern = name

\* MODELS_DIR.glob(f"{device_id}_*.pkl"): the device id is pasted into the
\* pattern as it is
Glob(files, device_id) ==
    LET pattern == PurePath(device_id)
    IN  {p \in DOMAIN files :
            /\ Len(p) >= Len(pattern) + 2
            /\ \A i \in 1..Len(pattern) : TokenMatch(pattern[i], p[i])
            /\ p[Len(pattern) + 1] = "_"
            /\ p[Len(p)] = ".pkl"}

\* clear_device_models: the cache, the files and the count returned
clear_device_models(reg, files, device_id) ==
    LET model_files == Glob(files, device_id)
    IN  [reg |-> DictDel(reg, {device_id}),
         files |-> DictDel(files, model_files),
         cleared |-> Cardinality(model_files)]

\* the Prophet model that forecast_usage fits and saves
Prophet(history, id) == [id |-> id, history |-> history]

\* len([x] * n) and len(range(n))
RepeatLen(n) == IF n > 0 THEN n ELSE 0

\* forecast_usage with the Prophet threshold off by one (<= 7 instead of < 7)
forecast_usage_le(files, id, device_id, history, periods, prophet_available, prophet_ok, save_ok) ==
    IF Len(history) < 3
    THEN [files |-> files, status |-> 200, model_type |-> "simple_average",
          forecast_len |-> RepeatLen(periods), confidence_len |-> RepeatLen(periods),
          prophet_raised |-> FALSE]
    ELSE IF Len(history) <= 7 \/ ~prophet_available
    THEN [files |-> files, status |-> 200, model_type |-> "moving_average",
          forecast_len |-> RepeatLen(periods), confidence_len |-> RepeatLen(periods),
          prophet_raised |-> FALSE]
    ELSE IF prophet_ok
    THEN [files |-> save_model(files, device_id, "forecast", Prophet(history, id), save_ok),
          status |-> 200, model_type |-> "prophet",
          forecast_len |-> RepeatLen(periods), confidence_len |-> RepeatLen(periods),
          prophet_raised |-> FALSE]
    ELSE [files |-> files, status |-> 200, model_type |-> "moving_average_fallback",
          forecast_len |-> RepeatLen(periods), confidence_len |-> RepeatLen(periods),
          prophet_raised |-> TRUE]

\* forecast_usage: the files and the response (method chosen and the lengths
\* of the two lists).  prophet_ok = FALSE is Prophet raising, which is caught.
forecast_usage(files, id, device_id, history, periods, prophet_available, prophet_ok, save_ok) ==
    IF Len(history) < 3
    THEN [files |-> files, status |-> 200, model_type |-> "simple_average",
          forecast_len |-> RepeatLen(periods), confidence_len |-> RepeatLen(periods),
          prophet_raised |-> FALSE]
    ELSE IF Len(history) < 7 \/ ~prophet_available
    THEN [files |-> files, status |-> 200, model_type |-> "moving_average",
          forecast_len |-> RepeatLen(periods), confidence_len |-> RepeatLen(periods),
          prophet_raised |-> FALSE]
    ELSE IF prophet_ok
    THEN [files |-> save_model(files, device_id, "forecast", Prophet(history, id), save_ok),
          status |-> 200, model_type |-> "prophet",
          forecast_len |-> RepeatLen(periods), confidence_len |-> RepeatLen(periods),
          prophet_raised |-> FALSE]
    ELSE [files |-> files, status |-> 200, model_type |-> "moving_average_fallback",
          forecast_len |-> RepeatLen(periods), confidence_len |-> RepeatLen(periods),
          prophet_raised |-> TRUE]

\* the days of base_schedule
Days == {"monday", "tuesday", "wednesday", "thursday", "friday", "saturday", "sunday"}

Off == [start |-> "00:00", end |-> "00:00", priority |-> "off"]

base_schedule ==
    [day \in Days |->
        IF day = "sunday" THEN Off
        ELSE IF day = "saturday"
        THEN [start |-> "09:00", end |-> "17:00", priority |-> "medium"]
        ELSE [start |-> "08:00", end |-> "18:00", priority |-> "high"]]

\* d.get(k, default)
DictGet(d, k, default) == IF k \in DOMAIN d THEN d[k] ELSE default

\* build_optimized_schedule with class_hours.get("weekends", True)
build_optimized_schedule_weekends_default(constraints) ==
    LET s1 == IF "class_schedule" \in DOMAIN constraints
              THEN [day \in Days |->
                      IF /\ day \in {"saturday", "sunday"}
                         /\ ~DictGet(constraints["class_schedule"], "weekends", TRUE)
                      THEN Off
                      ELSE base_schedule[day]]
              ELSE base_schedule
    IN  IF "energy_budget" \in DOMAIN constraints /\ constraints["energy_budget"] < LOW_BUDGET
        THEN [day \in Days |->
                IF s1[day].priority = "high"
                THEN [s1[day] EXCEPT !.priority = "medium"]
                ELSE s1[day]]
        ELSE s1

\* build_optimized_schedule
build_optimized_schedule(constraints) ==
    LET s1 == IF "class_schedule" \in DOMAIN constraints
              THEN [day \in Days |->
                      IF /\ day \in {"saturday", "sunday"}
                         /\ ~DictGet(constraints["class_schedule"], "weekends", FALSE)
                      THEN Off
                      ELSE base_schedule[day]]
              ELSE base_schedule
    IN  IF "energy_budget" \in DOMAIN constraints /\ constraints["energy_budget"] < LOW_BUDGET
        THEN [day \in Days |->
                IF s1[day].priority = "high"
                THEN [s1[day] EXCEPT !.priority = "medium"]
                ELSE s1[day]]
        ELSE s1

\* hours of use of one day of the schedule, in tenths of an hour
DayHours(priority) ==
    IF priority = "off" THEN 0
    ELSE IF priority = "low" THEN 24
    ELSE IF priority = "medium" THEN 60
    ELSE 100

RECURSIVE SumHours(_, _)
SumHours(schedule, days) ==
    IF days = {} THEN 0
    ELSE LET day == CHOOSE x \in days : TRUE
         IN  DayHours(schedule[day].priority) + SumHours(schedule, days \ {day})

\* (1 - optimized_hours / total_hours) * 100, in hundredths of a percent,
\* rounded to the nearest one as round(energy_savings, 2) does
SavingsPercentage(schedule) ==
    LET optimized_hours == SumHours(schedule, DOMAIN schedule)
        total_hours == 24 * Cardinality(DOMAIN schedule)
    IN  IF total_hours > 0
        THEN (2 * (10000 * total_hours - 1000 * optimized_hours) + total_hours)
                \div (2 * total_hours)
        ELSE 0

\* calculate_energy_savings without the bounds of its last line
calculate_energy_savings_unbounded(schedule, historical_usage) ==
    IF Len(historical_usage) < MIN_USAGE
    THEN 0
    ELSE SavingsPercentage(schedule)

\* calculate_energy_savings, in hundredths of a percent
calculate_energy_savings(schedule, historical_usage) ==
    IF Len(historical_usage) < MIN_USAGE
    THEN 0
    ELSE Max(MIN_SAVINGS, Min(MAX_SAVINGS, SavingsPercentage(schedule)))

\* optimize_schedule: the response.  `request.constraints or {}` and
\* `request.historical_usage or []` make a missing field an empty one.
optimize_schedule(constraints, historical_usage) ==
    LET schedule == build_optimized_schedule(constraints)
    IN  [status |-> 200, schedule |-> schedule,
         energy_savings |-> calculate_energy_savings(schedule, historical_usage)]

---------------------------------------------------------------------------
(* Inputs *)

\* values of a request to /anomaly
RequestBatches ==
    { Fill(1, 5), Fill(1, 10), Fill(2, 10), Fill(1, 9) \o Fill(2, 1), Fill(1, 90) }

\* batches given to predict directly
PredictBatches ==
    { <<>>, Fill(1, 1), Fill(1, 10), Fill(2, 10), Fill(1, 9) \o Fill(2, 1),
      Fill(2, 1) \o Fill(1, 1000) }

\* batches given to train directly
TrainBatches ==
    { Fill(1, 5), Fill(1, 95), Fill(1, 99), Fill(2, 1) \o Fill(1, 1000) }

\* history of a request to /forecast
ForecastHistories == { Fill(1, 2), Fill(1, 5), Fill(1, 8) }

\* history and periods of a request to /forecast, around the two thresholds
PlanningHistories == { <<>>, Fill(1, 2), Fill(1, 3), Fill(1, 6), Fill(1, 7) }

PlanningPeriods == {0, 3}

\* constraints of a request to /schedule
ScheduleConstraints ==
    { [class_schedule |-> cs] : cs \in {EmptyMap, [weekends |-> FALSE], [weekends |-> TRUE]} }
    \cup { [energy_budget |-> b] : b \in {49, 50} }
    \cup { [class_schedule |-> cs, energy_budget |-> b] :
              cs \in {EmptyMap, [weekends |-> FALSE], [weekends |-> TRUE]}, b \in {49, 50} }
    \cup { EmptyMap }

\* historical_usage of a request to /schedule
UsageHistories == { <<>>, Fill(1, 23), Fill(1, 24), Fill(2, 48) }

\* values of a request to /anomaly with a NaN or an infinity in them
NonFiniteBatches == { Fill(1, 9) \o <<NaN>>, Fill(1, 9) \o <<Infinity>> }

\* values of a request to /anomaly when the disk may fail
FaultBatches == { Fill(1, 10), Fill(1, 90) }

---------------------------------------------------------------------------
(* State machine *)

Init ==
    /\ anomaly_detectors = EmptyMap
    /\ models_dir = EmptyMap
    /\ det = AnomalyDetector(<<"dev">>, 0)
    /\ next_id = 1
    /\ PROPHET_AVAILABLE \in BOOLEAN
    /\ evicted = {}
    /\ trained_ids = {}
    /\ last = [op |-> "start"]
    /\ nops = 0
    /\ tasks = <<>>
    /\ running = 0
    /\ orphans = EmptyMap

\* POST /anomaly, with the outcome of the disk reads and writes it makes
DetectAnomaliesIO(device_id, values, load_ok, save_ok) ==
    /\ nops < MaxOps
    /\ LET r == detect_anomalies(anomaly_detectors, models_dir, next_id,
                                 device_id, values, load_ok, save_ok)
       IN  /\ anomaly_detectors' = r.reg
           /\ models_dir' = r.files
           /\ evicted' = IF r.resolved = "none" THEN evicted ELSE evicted \ {device_id}
           /\ trained_ids' = IF r.resolved # "none" /\ r.reg[device_id].trained
                             THEN trained_ids \cup {device_id}
                             ELSE trained_ids
           /\ last' = [op |-> "detect_anomalies", device_id |-> device_id,
                       values |-> values, status |-> r.status, raised |-> r.raised,
                       error |-> r.error, load_ok |-> load_ok, save_ok |-> save_ok,
                       after_evict |-> device_id \in evicted,
                       resolved |-> r.resolved, was_trained |-> r.was_trained,
                       old_len |-> r.old_len, fits |-> r.fits, saves |-> r.saves,
                       anomalies |-> r.anomalies, scores |-> r.scores]
    /\ next_id' = next_id + 1
    /\ nops' = nops + 1
    /\ UNCHANGED <<tasks, running, orphans, det, PROPHET_AVAILABLE>>

\* POST /anomaly
DetectAnomalies(device_id, values) ==
    DetectAnomaliesIO(device_id, values, TRUE, TRUE)

\* POST /forecast
ForecastUsage(device_id, history, periods, prophet_ok) ==
    /\ nops < MaxOps
    /\ LET r == forecast_usage(models_dir, next_id, device_id, history, periods,
                               PROPHET_AVAILABLE, prophet_ok, TRUE)
       IN  /\ models_dir' = r.files
           /\ last' = [op |-> "forecast_usage", device_id |-> device_id,
                       history |-> history, periods |-> periods,
                       status |-> r.status, model_type |-> r.model_type,
                       forecast_len |-> r.forecast_len,
                       confidence_len |-> r.confidence_len,
                       prophet_raised |-> r.prophet_raised]
    /\ next_id' = next_id + 1
    /\ nops' = nops + 1
    /\ UNCHANGED <<tasks, running, orphans, trained_ids, anomaly_detectors, det, PROPHET_AVAILABLE, evicted>>

\* DELETE /models/{device_id}
ClearDeviceModels(device_id) ==
    /\ nops < MaxOps
    /\ LET r == clear_device_models(anomaly_detectors, models_dir, device_id)
       IN  /\ models_dir' = r.files
           /\ anomaly_detectors' = r.reg
           /\ last' = [op |-> "clear_device_models", device_id |-> device_id,
                       status |-> 200, cleared |-> r.cleared]
    /\ evicted' = IF \/ device_id \in DOMAIN anomaly_detectors
                     \/ ModelPath(device_id, "anomaly") \in DOMAIN models_dir
                  THEN evicted \cup {device_id}
                  ELSE evicted
    /\ trained_ids' = trained_ids \ {device_id}
    /\ nops' = nops + 1
    /\ UNCHANGED <<tasks, running, orphans, det, next_id, PROPHET_AVAILABLE>>

\* GET /models/{device_id}
GetModelInfo(device_id) ==
    /\ nops < MaxOps
    /\ last' = [op |-> "get_model_info", device_id |-> device_id, status |-> 200,
                models |-> Glob(models_dir, device_id),
                in_memory |-> device_id \in DOMAIN anomaly_detectors]
    /\ nops' = nops + 1
    /\ UNCHANGED <<tasks, running, orphans, trained_ids, anomaly_detectors, models_dir, det, next_id, PROPHET_AVAILABLE,
                   evicted>>

\* The process is restarted: the module is loaded again, anomaly_detectors = {}
\* and MODELS_DIR.mkdir(exist_ok=True) keeps the files.
Restart ==
    /\ nops < MaxOps
    /\ anomaly_detectors' = EmptyMap
    /\ last' = [op |-> "restart"]
    /\ nops' = nops + 1
    /\ UNCHANGED <<tasks, running, orphans, trained_ids, models_dir, det, next_id, PROPHET_AVAILABLE, evicted>>

Next ==
    \/ \E device_id \in DeviceIds, values \in RequestBatches :
          DetectAnomalies(device_id, values)
    \/ \E device_id \in DeviceIds, history \in ForecastHistories,
          prophet_ok \in BOOLEAN :
          ForecastUsage(device_id, history, 2, prophet_ok)
    \/ \E device_id \in DeviceIds : ClearDeviceModels(device_id)
    \/ \E device_id \in DeviceIds : GetModelInfo(device_id)
    \/ Restart

Spec == Init /\ [][Next]_vars

\* joblib.load is only called, and can only raise, for a device that is not
\* in the cache
LoadOutcomes(device_id) ==
    IF device_id \in DOMAIN anomaly_detectors THEN {TRUE} ELSE BOOLEAN

\* The endpoints of the detector lifecycle when joblib.load and joblib.dump may
\* raise.
NextFaults ==
    /\ nops < MaxFaultOps
    /\ \/ \E device_id \in DeviceIds, values \in FaultBatches \cup {Fill(2, 10)},
             save_ok \in BOOLEAN : \E load_ok \in LoadOutcomes(device_id) :
             DetectAnomaliesIO(device_id, values, load_ok, save_ok)
       \/ \E device_id \in DeviceIds : ClearDeviceModels(device_id)
       \/ Restart

SpecFaults == Init /\ [][NextFaults]_vars

\* The endpoints of the detector lifecycle called with any device id
NextAnyId ==
    \/ \E device_id \in AnyDeviceIds, values \in FaultBatches :
          DetectAnomalies(device_id, values)
    \/ \E device_id \in AnyDeviceIds : ClearDeviceModels(device_id)
    \/ \E device_id \in AnyDeviceIds : GetModelInfo(device_id)
    \/ Restart

SpecAnyId == Init /\ [][NextAnyId]_vars

\* The endpoints of the detector lifecycle called with two device ids that
\* name the same files
NextAliasId ==
    \/ \E device_id \in AliasDeviceIds, values \in FaultBatches \cup {Fill(2, 10)} :
          DetectAnomalies(device_id, values)
    \/ \E device_id \in AliasDeviceIds : ClearDeviceModels(device_id)
    \/ \E device_id \in AliasDeviceIds : GetModelInfo(device_id)
    \/ Restart

SpecAliasId == Init /\ [][NextAliasId]_vars

\* POST /schedule
OptimizeSchedule(device_id, constraints, historical_usage) ==
    /\ nops < MaxPlanOps
    /\ LET r == optimize_schedule(constraints, historical_usage)
       IN  last' = [op |-> "optimize_schedule", device_id |-> device_id,
                    constraints |-> constraints, historical_usage |-> historical_usage,
                    status |-> r.status, schedule |-> r.schedule,
                    energy_savings |-> r.energy_savings]
    /\ nops' = nops + 1
    /\ UNCHANGED <<tasks, running, orphans, trained_ids, anomaly_detectors, models_dir, det, next_id,
                   PROPHET_AVAILABLE, evicted>>

\* The two endpoints that keep no state between requests
NextPlanning ==
    \/ /\ nops < MaxPlanOps
       /\ \E device_id \in DeviceIds, history \in PlanningHistories,
             periods \in PlanningPeriods, prophet_ok \in BOOLEAN :
             ForecastUsage(device_id, history, periods, prophet_ok)
    \/ \E constraints \in ScheduleConstraints, historical_usage \in UsageHistories :
          OptimizeSchedule(<<"dev">>, constraints, historical_usage)

SpecPlanning == Init /\ [][NextPlanning]_vars

\* The endpoints of the detector lifecycle called with values that json.loads
\* accepts and that are not numbers
NextNonFinite ==
    \/ \E device_id \in DeviceIds, values \in NonFiniteBatches \cup {Fill(1, 10)} :
          DetectAnomalies(device_id, values)
    \/ \E device_id \in DeviceIds : ClearDeviceModels(device_id)
    \/ Restart

SpecNonFinite == Init /\ [][NextNonFinite]_vars

\* det.predict(new_data), called on the detector directly
Predict(new_data) ==
    /\ nops < MaxCalls
    /\ LET r == predict(det, new_data, models_dir, TRUE)
       IN  /\ det' = r.self
           /\ models_dir' = r.files
           /\ last' = [op |-> "predict", values |-> new_data, raised |-> r.raised,
                       error |-> r.error,
                       was_trained |-> det.trained, old_len |-> Len(det.baseline),
                       fits |-> r.fits, saves |-> r.saves,
                       anomalies |-> r.anomalies, scores |-> r.scores]
    /\ nops' = nops + 1
    /\ UNCHANGED <<tasks, running, orphans, trained_ids, anomaly_detectors, next_id, PROPHET_AVAILABLE, evicted>>

\* det.train(data), called on the detector directly
Train(data) ==
    /\ nops < MaxCalls
    /\ LET r == train(det, data, models_dir, TRUE)
       IN  /\ det' = r.self
           /\ models_dir' = r.files
           /\ last' = [op |-> "train", values |-> data,
                       was_trained |-> det.trained, old_len |-> Len(det.baseline),
                       fits |-> r.fits, saves |-> r.saves]
    /\ nops' = nops + 1
    /\ UNCHANGED <<tasks, running, orphans, trained_ids, anomaly_detectors, next_id, PROPHET_AVAILABLE, evicted>>

\* save_model(device_id, 'anomaly', det); loaded = load_model(device_id,
\* 'anomaly'); path.unlink() -- the round trip of the unit test
RoundTrip ==
    /\ nops < MaxCalls
    /\ LET saved == save_model(models_dir, det.device_id, "anomaly", det, TRUE)
           found == load_model_found(saved, det.device_id, "anomaly", TRUE)
       IN  /\ last' = [op |-> "roundtrip", found |-> found,
                       loaded |-> IF found
                                  THEN load_model(saved, det.device_id, "anomaly", next_id)
                                  ELSE [id |-> next_id]]
           /\ models_dir' = DictDel(saved, {ModelPath(det.device_id, "anomaly")})
    /\ next_id' = next_id + 1
    /\ nops' = nops + 1
    /\ UNCHANGED <<tasks, running, orphans, trained_ids, anomaly_detectors, det, PROPHET_AVAILABLE, evicted>>

NextDetector ==
    \/ \E new_data \in PredictBatches : Predict(new_data)
    \/ \E data \in TrainBatches : Train(data)
    \/ RoundTrip

SpecDetector == Init /\ [][NextDetector]_vars

---------------------------------------------------------------------------
(* The handlers on the event loop, statement by statement *)

\* handlers that give the event loop back between any two statements
Yields_between_statements(pc) == TRUE

\* Whether a handler gives the event loop back at this position.  Both
\* handlers are `async def` and contain no await: they never do.
Yields(pc) == FALSE

\* the detector object with this identity: in the cache, or held by a
\* coroutine only
InCache(reg, id) == {d \in DOMAIN reg : reg[d].id = id}

Object(reg, orph, id) ==
    IF InCache(reg, id) # {}
    THEN reg[CHOOSE d \in InCache(reg, id) : TRUE]
    ELSE orph[id]

\* identities of the detectors held by the unfinished coroutines other than t
Held(ts, t) ==
    {ts[i].detector : i \in {j \in 1..Len(ts) : j # t /\ ts[j].pc \in {"resolved", "checked"}}}

\* the event loop after coroutine t moved to position pc
Schedule(t, pc) == IF pc = "done" \/ Yields(pc) THEN 0 ELSE t

\* a request arrives: its handler is queued on the event loop
Request(kind, device_id, values) ==
    /\ Len(tasks) < MaxTasks
    /\ tasks' = Append(tasks, [kind |-> kind, device_id |-> device_id,
                               values |-> values, pc |-> "pending", detector |-> 0,
                               branch |-> "", cleared |-> 0,
                               overlapped |-> \E i \in 1..Len(tasks) : tasks[i].pc # "done",
                               response |-> [status |-> 0]])
    /\ UNCHANGED <<anomaly_detectors, models_dir, det, next_id, PROPHET_AVAILABLE,
                   evicted, trained_ids, last, nops, running, orphans>>

\* detect_anomalies up to `detector = anomaly_detectors[device_id]`
GetOrCreate(t) ==
    /\ t \in 1..Len(tasks)
    /\ running \in {0, t}
    /\ tasks[t].kind = "detect_anomalies"
    /\ tasks[t].pc = "pending"
    /\ IF Len(tasks[t].values) < MIN_POINTS
       THEN /\ tasks' = [tasks EXCEPT ![t].pc = "done",
                                      ![t].response = [status |-> 500, anomalies |-> <<>>,
                                                       scores |-> <<>>, fits |-> 0]]
            /\ running' = Schedule(t, "done")
            /\ UNCHANGED anomaly_detectors
       ELSE LET reg1 == get_or_create(anomaly_detectors, models_dir,
                                      tasks[t].device_id, next_id, TRUE)
            IN  /\ anomaly_detectors' = reg1
                /\ tasks' = [tasks EXCEPT ![t].pc = "resolved",
                                          ![t].detector = reg1[tasks[t].device_id].id]
                /\ running' = Schedule(t, "resolved")
    /\ next_id' = next_id + 1
    /\ UNCHANGED <<models_dir, det, PROPHET_AVAILABLE, evicted, trained_ids, last, nops, orphans>>

\* detector.predict(values): the test `if not self.trained`
PredictEnter(t) ==
    /\ t \in 1..Len(tasks)
    /\ running \in {0, t}
    /\ tasks[t].pc = "resolved"
    /\ tasks' = [tasks EXCEPT
                    ![t].pc = "checked",
                    ![t].branch = IF Object(anomaly_detectors, orphans,
                                            tasks[t].detector).trained
                                  THEN "score" ELSE "train"]
    /\ running' = Schedule(t, "checked")
    /\ UNCHANGED <<anomaly_detectors, models_dir, det, next_id, PROPHET_AVAILABLE,
                   evicted, trained_ids, last, nops, orphans>>

\* the rest of predict, on the object the coroutine holds, and the response
PredictBody(t) ==
    /\ t \in 1..Len(tasks)
    /\ running \in {0, t}
    /\ tasks[t].pc = "checked"
    /\ LET id == tasks[t].detector
           self == Object(anomaly_detectors, orphans, id)
           r == IF tasks[t].branch = "train"
                THEN predict_untrained(self, tasks[t].values, models_dir, TRUE)
                ELSE predict_trained(self, tasks[t].values, models_dir, TRUE)
           cached == InCache(anomaly_detectors, id)
       IN  /\ anomaly_detectors' = [d \in DOMAIN anomaly_detectors |->
                                       IF d \in cached THEN r.self
                                       ELSE anomaly_detectors[d]]
           /\ orphans' = IF cached # {} THEN orphans
                         ELSE IF id \in Held(tasks, t) THEN DictSet(orphans, id, r.self)
                         ELSE DictDel(orphans, {id})
           /\ models_dir' = r.files
           /\ tasks' = [tasks EXCEPT
                           ![t].pc = "done",
                           ![t].response = [status |-> IF r.raised THEN 500 ELSE 200,
                                            anomalies |-> r.anomalies,
                                            scores |-> r.scores, fits |-> r.fits]]
    /\ running' = Schedule(t, "done")
    /\ UNCHANGED <<det, next_id, PROPHET_AVAILABLE, evicted, trained_ids, last, nops>>

\* clear_device_models: the glob and the unlink loop
ClearUnlink(t) ==
    /\ t \in 1..Len(tasks)
    /\ running \in {0, t}
    /\ tasks[t].kind = "clear_device_models"
    /\ tasks[t].pc = "pending"
    /\ LET model_files == Glob(models_dir, tasks[t].device_id)
       IN  /\ models_dir' = DictDel(models_dir, model_files)
           /\ tasks' = [tasks EXCEPT ![t].pc = "unlinked",
                                     ![t].cleared = Cardinality(model_files)]
    /\ running' = Schedule(t, "unlinked")
    /\ UNCHANGED <<anomaly_detectors, det, next_id, PROPHET_AVAILABLE, evicted,
                   trained_ids, last, nops, orphans>>

\* clear_device_models: `del anomaly_detectors[device_id]` and the response
ClearDelete(t) ==
    /\ t \in 1..Len(tasks)
    /\ running \in {0, t}
    /\ tasks[t].pc = "unlinked"
    /\ LET d == tasks[t].device_id
           held == d \in DOMAIN anomaly_detectors
                   /\ anomaly_detectors[d].id \in Held(tasks, t)
       IN  /\ anomaly_detectors' = DictDel(anomaly_detectors, {d})
           /\ orphans' = IF held
                         THEN DictSet(orphans, anomaly_detectors[d].id, anomaly_detectors[d])
                         ELSE orphans
    /\ tasks' = [tasks EXCEPT ![t].pc = "done",
                              ![t].response = [status |-> 200,
                                               cleared |-> tasks[t].cleared]]
    /\ running' = Schedule(t, "done")
    /\ UNCHANGED <<models_dir, det, next_id, PROPHET_AVAILABLE, evicted, trained_ids, last, nops>>

NextLoop ==
    \/ \E device_id \in DeviceIds, values \in FaultBatches :
          Request("detect_anomalies", device_id, values)
    \/ \E device_id \in DeviceIds : Request("clear_device_models", device_id, <<>>)
    \/ \E t \in 1..MaxTasks : GetOrCreate(t)
    \/ \E t \in 1..MaxTasks : PredictEnter(t)
    \/ \E t \in 1..MaxTasks : PredictBody(t)
    \/ \E t \in 1..MaxTasks : ClearUnlink(t)
    \/ \E t \in 1..MaxTasks : ClearDelete(t)

SpecLoop == Init /\ [][NextLoop]_vars

\* The requests of `ts` handled one after the other, in the order `order`,
\* each by its whole handler, starting from `st`
RECURSIVE SerialRun(_, _, _, _)
SerialRun(st, ts, order, k) ==
    IF k > Len(ts) THEN st
    ELSE LET t == order[k]
             next == IF ts[t].kind = "detect_anomalies"
                     THEN LET r == detect_anomalies(st.reg, st.files, st.id,
                                                    ts[t].device_id, ts[t].values,
                                                    TRUE, TRUE)
                          IN  [reg |-> r.reg, files |-> r.files, id |-> st.id + 1,
                               response |-> [st.response EXCEPT
                                               ![t] = [status |-> r.status,
                                                       anomalies |-> r.anomalies,
                                                       scores |-> r.scores,
                                                       fits |-> r.fits]]]
                     ELSE LET r == clear_device_models(st.reg, st.files, ts[t].device_id)
                          IN  [reg |-> r.reg, files |-> r.files, id |-> st.id,
                               response |-> [st.response EXCEPT
                                               ![t] = [status |-> 200,
                                                       cleared |-> r.cleared]]]
         IN  SerialRun(next, ts, order, k + 1)

\* the state of a process that has handled no request
Fresh(ts) == [reg |-> EmptyMap, files |-> EmptyMap, id |-> 1,
              response |-> [i \in 1..Len(ts) |-> [status |-> 0]]]

---------------------------------------------------------------------------
(* Properties *)

\* every Detector of the state: cached, pickled under "anomaly", or used directly
AllDetectors ==
    {anomaly_detectors[d] : d \in DOMAIN anomaly_detectors}
    \cup {Unpickle(models_dir[ModelPath(d, "anomaly")], 0) :
             d \in {e \in AnyDeviceIds : ModelPath(e, "anomaly") \in DOMAIN models_dir}}
    \cup {det}

\* C1: the cache holds one Detector object per device id, objects are not
\* shared between device ids, and an entry keeps the very same object until a
\* clear or a restart removes it; a request for a device that has an entry is
\* served from the cache, without loading or constructing.
C1_SameInstance ==
    [][ /\ \A d1, d2 \in DOMAIN anomaly_detectors' :
              anomaly_detectors'[d1].id = anomaly_detectors'[d2].id => d1 = d2
        /\ \A d \in DOMAIN anomaly_detectors :
              /\ d \in DOMAIN anomaly_detectors' =>
                    anomaly_detectors'[d].id = anomaly_detectors[d].id
              /\ d \notin DOMAIN anomaly_detectors' =>
                    last'.op \in {"clear_device_models", "restart"}
              /\ (last'.op = "detect_anomalies" /\ last'.device_id = d
                    /\ last'.status = 200) => last'.resolved = "cached" ]_vars

C1_Witness ==
    /\ last.op = "detect_anomalies"
    /\ last.status = 200
    /\ last.resolved = "cached"
    /\ last.device_id \in DOMAIN anomaly_detectors

\* C2: every predict call returns one score per input element.
C2_ScoresPerElement ==
    (last.op = "predict" /\ ~last.raised) => Len(last.scores) = Len(last.values)

\* C3: a scoring request with fewer than 10 values is answered with status 400.
C3_Status400 ==
    (last.op = "detect_anomalies" /\ Len(last.values) < 10) => last.status = 400

\* C4: a scoring request with fewer than 10 values changes neither the cache
\* nor the files, and looks no detector up.
C4_RejectedUnchanged ==
    [][ (last'.op = "detect_anomalies" /\ Len(last'.values) < 10) =>
            /\ anomaly_detectors' = anomaly_detectors
            /\ models_dir' = models_dir
            /\ last'.resolved = "none"
            /\ last'.fits = 0 /\ last'.saves = 0 ]_vars

C4_Witness ==
    /\ last.op = "detect_anomalies"
    /\ Len(last.values) < 10
    /\ last.status # 200
    /\ \E d \in DOMAIN anomaly_detectors : anomaly_detectors[d].trained
    /\ last.device_id \notin DOMAIN anomaly_detectors

\* C5: after a predict call the baseline has at most 1000 entries.
C5_BaselineCap ==
    last.op = "predict" => Len(det.baseline) <= 1000

\* C6: train(data) with at least 10 entries leaves the Detector trained, its
\* baseline equal to the last 1000 entries of data, and the file of
\* (device id, "anomaly") holding a snapshot of the Detector.
C6_TrainPostcondition ==
    (last.op = "train" /\ Len(last.values) >= 10) =>
        /\ det.trained
        /\ det.baseline = LastN(last.values, 1000)
        /\ ModelPath(det.device_id, "anomaly") \in DOMAIN models_dir
        /\ models_dir[ModelPath(det.device_id, "anomaly")] = Pickle(det)

\* C7 as stated: predict on a trained Detector re-fits iff the baseline length
\* after the call is a positive multiple of 100, also when nothing was appended.
C7_Original ==
    (last.op = "predict" /\ last.was_trained) =>
        ((last.fits > 0) <=>
            (Len(det.baseline) > 0 /\ Len(det.baseline) % 100 = 0))

\* C7 as amended: predict on a trained Detector re-fits iff at least one
\* element of the batch was classified normal and the baseline length after the
\* call is a positive multiple of 100.
C7_Amended ==
    (last.op = "predict" /\ last.was_trained) =>
        ((last.fits > 0) <=>
            (/\ Len(last.anomalies) < Len(last.values)
             /\ Len(det.baseline) > 0
             /\ Len(det.baseline) % 100 = 0))

C7_Witness ==
    /\ last.op = "predict"
    /\ last.was_trained
    /\ last.old_len = 99
    /\ Len(det.baseline) = 100
    /\ last.fits = 1

\* C8: a predict call on a trained Detector whose appended elements take the
\* baseline length across a multiple of 100 re-fits and saves in that call.
C8_CrossingRetrains ==
    (last.op = "predict" /\ last.was_trained
        /\ last.old_len \div 100 < Len(det.baseline) \div 100) =>
        (last.fits > 0 /\ last.saves > 0)

\* C9: predict on an untrained Detector with at least 10 values returns no
\* anomaly index, leaves the Detector trained and makes the batch its baseline.
C9_FirstPredict ==
    (last.op = "predict" /\ ~last.was_trained /\ Len(last.values) >= 10) =>
        /\ last.anomalies = <<>>
        /\ det.trained
        /\ det.baseline = last.values

C9_Witness ==
    /\ last.op = "predict"
    /\ ~last.was_trained
    /\ Len(last.values) = 10
    /\ det.trained
    /\ det.baseline = last.values

\* C10: a Detector that is trained has a non-empty baseline and a model that
\* was fit, be it cached (constructed or loaded), pickled or used directly.
C10_TrainedImpliesFit ==
    \A D \in AllDetectors : D.trained => (Len(D.baseline) > 0 /\ D.model.fitted)

C10_Witness ==
    /\ last.op = "detect_anomalies"
    /\ last.resolved = "loaded"
    /\ last.status = 200
    /\ anomaly_detectors[last.device_id].trained

\* C11: predict on a trained Detector appends exactly the elements of the batch
\* that the model classifies normal, in input order, and no outlier: the
\* baseline after the call is the tail of (old baseline followed by those
\* elements), and all of it when that is within the cap.
C11_OnlyNormalsAppended ==
    [][ (last'.op = "predict" /\ det.trained /\ ~last'.raised) =>
            LET normals == SelectSeq(last'.values,
                                     LAMBDA x : model_predict(det.model, x) = 1)
                full == det.baseline \o normals
            IN  /\ det'.baseline = LastN(full, Len(det'.baseline))
                /\ Len(full) <= 1000 => det'.baseline = full ]_vars

C11_Witness ==
    /\ last.op = "predict"
    /\ last.was_trained
    /\ Len(last.anomalies) > 0
    /\ Len(last.anomalies) < Len(last.values)
    /\ Len(det.baseline) = last.old_len + Len(last.values) - Len(last.anomalies)

\* C12: a device that was cleared has neither a cache entry nor an "anomaly"
\* file until it is looked up again, whatever requests, clears and restarts
\* happen in between, and that next lookup constructs a new, untrained Detector
\* with an empty baseline.
C12_NoResurrection ==
    /\ \A d \in evicted :
          /\ d \notin DOMAIN anomaly_detectors
          /\ ModelPath(d, "anomaly") \notin DOMAIN models_dir
    /\ (last.op = "detect_anomalies" /\ last.status = 200 /\ last.after_evict) =>
          /\ ~last.was_trained
          /\ last.old_len = 0
          /\ last.anomalies = <<>>
          /\ anomaly_detectors[last.device_id].id = next_id - 1
          /\ anomaly_detectors[last.device_id].baseline = last.values

\* C13: clearing a device removes its cache entry and its files of every kind
\* and returns the number of files removed; clearing it again changes nothing
\* and returns 0.
C13_EvictIdempotent ==
    /\ \A d \in AnyDeviceIds :
          LET r1 == clear_device_models(anomaly_detectors, models_dir, d)
              r2 == clear_device_models(r1.reg, r1.files, d)
          IN  /\ d \notin DOMAIN r1.reg
              /\ \A k \in {"anomaly", "forecast"} : ModelPath(d, k) \notin DOMAIN r1.files
              /\ r1.cleared = Cardinality(DOMAIN models_dir) - Cardinality(DOMAIN r1.files)
              /\ r2.reg = r1.reg
              /\ r2.files = r1.files
              /\ r2.cleared = 0
    /\ last.op = "clear_device_models" =>
          /\ last.device_id \notin DOMAIN anomaly_detectors
          /\ \A k \in {"anomaly", "forecast"} :
                ModelPath(last.device_id, k) \notin DOMAIN models_dir

\* a coroutine that has started to look its detector up, or to clear, and has
\* not finished
InWindow(task) == task.pc \in {"resolved", "checked", "unlinked"}

\* C14: no two handlers for the same device id are at the same time between
\* their first and their last statement: a scoring request that has looked its
\* Detector up finishes predict before another scoring request or a clear of
\* that device starts.
C14_MutualExclusion ==
    \A i \in 1..Len(tasks), j \in 1..Len(tasks) :
        (i # j /\ InWindow(tasks[i]) /\ InWindow(tasks[j])) =>
            tasks[i].device_id # tasks[j].device_id

C14_Witness ==
    \E i \in 1..Len(tasks), j \in 1..Len(tasks) :
        /\ i # j
        /\ tasks[i].kind = "detect_anomalies"
        /\ tasks[i].pc = "checked"
        /\ tasks[j].pc = "pending"
        /\ tasks[j].device_id = tasks[i].device_id

\* C15: once all the requests received have been answered, the cache, the
\* files and every response (anomalies, scores, number of fits) are those of
\* handling the same requests one after the other in some order.
C15_Serializable ==
    (Len(tasks) > 0 /\ \A i \in 1..Len(tasks) : tasks[i].pc = "done") =>
        \E order \in Permutations(1..Len(tasks)) :
            LET st == SerialRun(Fresh(tasks), tasks, order, 1)
            IN  /\ DOMAIN st.reg = DOMAIN anomaly_detectors
                /\ \A d \in DOMAIN st.reg : Pickle(st.reg[d]) = Pickle(anomaly_detectors[d])
                /\ st.files = models_dir
                /\ \A i \in 1..Len(tasks) : st.response[i] = tasks[i].response

C15_Witness ==
    /\ \A i \in 1..Len(tasks) : tasks[i].pc = "done"
    /\ \E i \in 1..Len(tasks), j \in 1..Len(tasks) :
          /\ i # j
          /\ tasks[i].kind = "detect_anomalies"
          /\ tasks[j].kind = "detect_anomalies"
          /\ tasks[i].device_id = tasks[j].device_id
          /\ tasks[j].overlapped
          /\ tasks[i].response.fits = 1
          /\ tasks[j].response.fits = 1
          /\ Len(tasks[j].response.scores) = Len(tasks[j].values)
          /\ tasks[i].device_id \in DOMAIN anomaly_detectors
          /\ Len(anomaly_detectors[tasks[i].device_id].baseline) = 100

C17_FailuresNonFatal ==
    [][ last'.op = "detect_anomalies" =>
            LET d == last'.device_id
                v == last'.values
                saved == detect_anomalies(anomaly_detectors, models_dir, next_id,
                                          d, v, last'.load_ok, TRUE)
                absent == detect_anomalies(anomaly_detectors,
                                           DictDel(models_dir, {ModelPath(d, "anomaly")}),
                                           next_id, d, v, TRUE, last'.save_ok)
            IN  /\ ~last'.save_ok =>
                      /\ models_dir' = models_dir
                      /\ anomaly_detectors' = saved.reg
                      /\ last'.status = 200 /\ saved.status = 200
                      /\ last'.anomalies = saved.anomalies
                      /\ last'.scores = saved.scores
                      /\ last'.fits > 0 => anomaly_detectors'[d].trained
                /\ ~last'.load_ok =>
                      /\ anomaly_detectors' = absent.reg
                      /\ last'.status = 200 /\ absent.status = 200
                      /\ last'.anomalies = absent.anomalies
                      /\ last'.scores = absent.scores
                      /\ d \notin DOMAIN anomaly_detectors =>
                            (~last'.was_trained /\ anomaly_detectors'[d].baseline = v)
      ]_vars

C17_Witness ==
    /\ last.op = "detect_anomalies"
    /\ ~last.load_ok
    /\ ~last.save_ok
    /\ last.resolved = "created"
    /\ last.saves > 0
    /\ last.status = 200
    /\ anomaly_detectors[last.device_id].trained
    /\ ModelPath(last.device_id, "anomaly") \in DOMAIN models_dir
    /\ models_dir[ModelPath(last.device_id, "anomaly")]
          # Pickle(anomaly_detectors[last.device_id])

\* C18: no predict call and no scoring request ever makes the model raise
\* NotFittedError: the model is only asked for scores after it was fit.
C18_NeverUnfitted ==
    last.op \in {"predict", "detect_anomalies"} =>
        /\ last.error # "NotFittedError"
        /\ Len(last.scores) > 0 => det.model.fitted

C18_Witness ==
    /\ last.op = "predict"
    /\ last.was_trained
    /\ last.error = ""
    /\ Len(last.scores) > 0
    /\ Len(last.scores) = Len(last.values)

\* C19: a scoring request uses the cached Detector if there is one, else the
\* Detector loaded from the "anomaly" file if there is one, else a new untrained
\* one; a request served from the file of a trained Detector is scored by the
\* persisted model and not absorbed as a baseline.
C19_ResolutionOrder ==
    [][ (last'.op = "detect_anomalies" /\ last'.status = 200) =>
            LET d == last'.device_id
                v == last'.values
                path == ModelPath(d, "anomaly")
            IN  IF d \in DOMAIN anomaly_detectors
                THEN /\ anomaly_detectors'[d].id = anomaly_detectors[d].id
                     /\ last'.was_trained = anomaly_detectors[d].trained
                     /\ last'.old_len = Len(anomaly_detectors[d].baseline)
                ELSE IF path \in DOMAIN models_dir
                THEN /\ anomaly_detectors'[d].id = next_id
                     /\ last'.was_trained = models_dir[path].trained
                     /\ last'.old_len = Len(models_dir[path].baseline)
                     /\ models_dir[path].trained =>
                           last'.scores =
                              [i \in 1..Len(v) |->
                                  decision_function(models_dir[path].model, v[i])]
                ELSE /\ anomaly_detectors'[d].id = next_id
                     /\ ~last'.was_trained
                     /\ last'.old_len = 0
                     /\ last'.scores = <<>>
                     /\ anomaly_detectors'[d].baseline = v ]_vars

C19_Witness ==
    /\ last.op = "detect_anomalies"
    /\ last.status = 200
    /\ last.resolved = "loaded"
    /\ last.was_trained
    /\ Len(last.scores) = Len(last.values)
    /\ \E d \in DeviceIds : ModelPath(d, "anomaly") \in DOMAIN models_dir

Artifacts(files, device_id) ==
    {ModelPath(device_id, k) : k \in {"anomaly", "forecast"}} \cap DOMAIN files

\* C21: a scoring request or a clear for one device leaves the cache entry and
\* the files of every other device as they were.
C21_DeviceIsolation ==
    [][ last'.op \in {"detect_anomalies", "clear_device_models"} =>
            \A e \in DeviceIds \ {last'.device_id} :
                /\ (e \in DOMAIN anomaly_detectors) = (e \in DOMAIN anomaly_detectors')
                /\ e \in DOMAIN anomaly_detectors =>
                      anomaly_detectors'[e] = anomaly_detectors[e]
                /\ Artifacts(models_dir', e) = Artifacts(models_dir, e)
                /\ \A p \in Artifacts(models_dir, e) : models_dir'[p] = models_dir[p]
      ]_vars

\* C22: the inventory reports in_memory exactly when the cache holds the
\* device and lists exactly the files of that device; after a successful
\* scoring request the "anomaly" file of the device exists.
C22_Inventory ==
    /\ last.op = "get_model_info" =>
          /\ last.in_memory = (last.device_id \in DOMAIN anomaly_detectors)
          /\ last.models = Artifacts(models_dir, last.device_id)
    /\ (last.op = "detect_anomalies" /\ last.status = 200) =>
          /\ last.device_id \in DOMAIN anomaly_detectors
          /\ ModelPath(last.device_id, "anomaly") \in Glob(models_dir, last.device_id)

\* C23: a scoring request with a NaN or an infinity among its values is
\* rejected before a Detector is looked up, so that train and predict are
\* never called with such a batch, and no baseline ever holds such a value.
C23_NonFiniteRejected ==
    /\ (last.op = "detect_anomalies" /\ HasNonFinite(last.values)) =>
          (last.resolved = "none" /\ last.fits = 0)
    /\ \A d \in DOMAIN anomaly_detectors :
          ~HasNonFinite(anomaly_detectors[d].baseline)

\* C24: the schedule operation answers energy_savings 0.0 when it is given
\* fewer than 24 usage points, and otherwise a value from 10.0 to 40.0,
\* whatever the constraints are.
C24_SavingsBounds ==
    last.op = "optimize_schedule" =>
        /\ last.status = 200
        /\ IF Len(last.historical_usage) < 24
           THEN last.energy_savings = 0
           ELSE last.energy_savings >= 1000 /\ last.energy_savings <= 4000

C24_Witness ==
    /\ last.op = "optimize_schedule"
    /\ Len(last.historical_usage) = 24
    /\ "energy_budget" \in DOMAIN last.constraints
    /\ last.constraints["energy_budget"] < 50
    /\ last.energy_savings = 4000

C26_ForecastNeedsThree ==
    (last.op = "forecast_usage" /\ Len(last.history) < 3) =>
        (last.status = 400 /\ last.forecast_len = 0)

\* C27: train with fewer than 10 elements changes neither the Detector nor the
\* files; predict on an untrained Detector with such a batch returns no
\* anomalies, raises nothing and leaves it untrained and unchanged, and with
\* 10 elements or more it performs the initial training.
C27_UndersizedNoOp ==
    [][ /\ (last'.op = "train" /\ Len(last'.values) < 10) =>
              (det' = det /\ models_dir' = models_dir /\ last'.fits = 0)
        /\ (last'.op = "predict" /\ ~det.trained /\ Len(last'.values) < 10) =>
              /\ det' = det
              /\ ~det'.trained
              /\ models_dir' = models_dir
              /\ ~last'.raised
              /\ last'.anomalies = <<>>
        /\ (last'.op = "predict" /\ ~det.trained /\ Len(last'.values) >= 10) =>
              /\ det'.trained
              /\ det'.baseline = last'.values
              /\ last'.fits = 1 ]_vars

C27_Witness ==
    /\ last.op = "predict"
    /\ ~last.was_trained
    /\ Len(last.values) = 1
    /\ ~last.raised
    /\ last.anomalies = <<>>
    /\ ~det.trained
    /\ det.baseline = <<>>
    /\ ModelPath(det.device_id, "anomaly") \notin DOMAIN models_dir

\* C28: when a predict call on a trained Detector appends normal elements and
\* the old baseline followed by them is longer than 1000, the baseline after
\* the call is the last 1000 entries of that sequence, in the same order.
C28_KeepsMostRecent ==
    [][ (last'.op = "predict" /\ det.trained /\ ~last'.raised) =>
            LET normals == SelectSeq(last'.values,
                                     LAMBDA x : model_predict(det.model, x) = 1)
                full == det.baseline \o normals
            IN  (Len(normals) > 0 /\ Len(full) > 1000) =>
                    det'.baseline = SubSeq(full, Len(full) - 999, Len(full)) ]_vars

C28_Witness ==
    /\ last.op = "predict"
    /\ last.was_trained
    /\ Len(last.anomalies) < Len(last.values)
    /\ last.old_len + Len(last.values) - Len(last.anomalies) > 1000
    /\ Len(det.baseline) = 1000

\* C29: the anomaly indices returned by predict on a trained Detector are
\* strictly increasing, lie in 0..len(new_data)-1, and are exactly the
\* positions that the model, as it was fit before the call, classifies as
\* outliers.
C29_AnomalyIndices ==
    [][ (last'.op = "predict" /\ det.trained /\ ~last'.raised) =>
            LET a == last'.anomalies
                v == last'.values
            IN  /\ \A k \in 1..Len(a) :
                      /\ a[k] \in 0..(Len(v) - 1)
                      /\ k < Len(a) => a[k] < a[k + 1]
                      /\ model_predict(det.model, v[a[k] + 1]) = -1
                /\ Len(a) = Cardinality({i \in 1..Len(v) : model_predict(det.model, v[i]) = -1})
      ]_vars

C29_Witness ==
    /\ last.op = "predict"
    /\ last.was_trained
    /\ last.fits = 1
    /\ Len(last.anomalies) = 1
    /\ Len(last.values) > 1

\* C30: once the Detector of a device has been trained, every later scoring
\* request for that device finds a trained Detector, unless the device was
\* cleared in between.
C30_Original ==
    [][ (last'.op = "detect_anomalies" /\ last'.status = 200
            /\ last'.device_id \in trained_ids) => last'.was_trained ]_vars

\* C30 (amended): a Detector object that is trained stays trained through
\* every request, also with all-outlier batches and failed saves; a device
\* that was trained and not cleared is found untrained only when its Detector
\* was replaced by a new one because the cache held none (after a restart) and
\* no file could be loaded.
C30_Amended ==
    [][ /\ \A d \in (DOMAIN anomaly_detectors) \cap (DOMAIN anomaly_detectors') :
              (anomaly_detectors'[d].id = anomaly_detectors[d].id
                  /\ anomaly_detectors[d].trained) => anomaly_detectors'[d].trained
        /\ (last'.op = "detect_anomalies" /\ last'.status = 200
                /\ last'.device_id \in trained_ids /\ ~last'.was_trained) =>
              /\ last'.resolved = "created"
              /\ last'.device_id \notin DOMAIN anomaly_detectors
              /\ (~last'.load_ok
                    \/ ModelPath(last'.device_id, "anomaly") \notin DOMAIN models_dir)
      ]_vars

C30_Witness ==
    /\ last.op = "detect_anomalies"
    /\ last.status = 200
    /\ last.resolved = "cached"
    /\ last.was_trained
    /\ ~last.save_ok
    /\ Len(last.anomalies) = Len(last.values)
    /\ anomaly_detectors[last.device_id].trained
    /\ last.device_id \in trained_ids

\* C31: a clear of device d deletes no file of another device e, also when
\* the id of e is d followed by an underscore; the count it returns is the
\* number of files of d; the inventory of d lists no file of e.
C31_ClearOnlyOwn ==
    [][ /\ last'.op = "clear_device_models" =>
              /\ \A e \in DeviceIds \ {last'.device_id} :
                    /\ Artifacts(models_dir', e) = Artifacts(models_dir, e)
                    /\ \A p \in Artifacts(models_dir, e) : models_dir'[p] = models_dir[p]
              /\ last'.cleared = Cardinality(Artifacts(models_dir, last'.device_id))
        /\ last'.op = "get_model_info" =>
              \A e \in DeviceIds \ {last'.device_id} :
                  last'.models \cap Artifacts(models_dir, e) = {}
      ]_vars

\* C32 as stated: whenever a device has a trained Detector in the cache and an
\* "anomaly" file, the file is a trained snapshot of at least 10 entries and
\* holds the model of the Detector's most recent train.
C32_Original ==
    \A d \in DeviceIds :
        LET path == ModelPath(d, "anomaly")
        IN  (d \in DOMAIN anomaly_detectors /\ anomaly_detectors[d].trained
                /\ path \in DOMAIN models_dir) =>
               /\ models_dir[path].trained
               /\ Len(models_dir[path].baseline) >= MIN_TRAIN
               /\ models_dir[path].model = anomaly_detectors[d].model

\* C32: every "anomaly" file is the snapshot of a trained Detector with at
\* least 10 baseline entries and the model fit on that baseline; the file is
\* written or changed only by a train of that device whose save succeeded, and
\* then it equals the Detector at the end of that train; a scoring request that
\* does not train, or whose save fails, leaves the file as it was; a Detector
\* loaded from the file starts trained with the baseline of the file.
C32_Amended ==
    [][ \A d \in DeviceIds :
            LET path == ModelPath(d, "anomaly")
                written == /\ path \in DOMAIN models_dir'
                           /\ (path \in DOMAIN models_dir =>
                                   models_dir'[path] # models_dir[path])
                scored == last'.op = "detect_anomalies" /\ last'.device_id = d
            IN  /\ path \in DOMAIN models_dir' =>
                      /\ models_dir'[path].trained
                      /\ Len(models_dir'[path].baseline) >= MIN_TRAIN
                      /\ models_dir'[path].model = model_fit(models_dir'[path].baseline)
                /\ written =>
                      /\ scored /\ last'.fits > 0 /\ last'.save_ok
                      /\ models_dir'[path] = Pickle(anomaly_detectors'[d])
                /\ (scored /\ path \in DOMAIN models_dir
                        /\ (last'.fits = 0 \/ ~last'.save_ok)) =>
                      models_dir'[path] = models_dir[path]
                /\ (scored /\ last'.resolved = "loaded") =>
                      /\ last'.was_trained
                      /\ last'.old_len = Len(models_dir[path].baseline)
      ]_vars

C32_Witness ==
    /\ last.op = "detect_anomalies"
    /\ last.resolved = "loaded"
    /\ last.fits > 0
    /\ ~last.save_ok
    /\ ModelPath(last.device_id, "anomaly") \in DOMAIN models_dir
    /\ Len(models_dir[ModelPath(last.device_id, "anomaly")].baseline)
          < Len(anomaly_detectors[last.device_id].baseline)
    /\ models_dir[ModelPath(last.device_id, "anomaly")].model
          # anomaly_detectors[last.device_id].model

\* C33: a predict call on a trained Detector whose baseline already has 1000
\* entries or more, in which at least one element is classified normal, leaves
\* a baseline of 1000 entries, fits the model on it and saves the Detector,
\* whatever the number of elements appended.
C33_RefitAtCap ==
    [][ (last'.op = "predict" /\ det.trained /\ ~last'.raised
            /\ Len(det.baseline) >= BASELINE_CAP
            /\ Len(last'.anomalies) < Len(last'.values)) =>
            /\ last'.fits > 0 /\ last'.saves > 0
            /\ Len(det'.baseline) = BASELINE_CAP
            /\ det'.model = model_fit(det'.baseline)
            /\ models_dir'[ModelPath(det.device_id, "anomaly")] = Pickle(det')
      ]_vars

\* a re-fit after one single insertion
C33_Witness ==
    /\ last.op = "predict"
    /\ last.was_trained
    /\ last.old_len >= BASELINE_CAP
    /\ Len(last.values) - Len(last.anomalies) = 1
    /\ last.fits > 0
    /\ last.saves > 0
    /\ Len(det.baseline) = BASELINE_CAP

C35_RegisteredUnderOwnId ==
    [][ /\ \A d \in DOMAIN anomaly_detectors' : anomaly_detectors'[d].device_id = d
        /\ (last'.op = "detect_anomalies" /\ last'.saves > 0) =>
              models_dir'[ModelPath(last'.device_id, "anomaly")].device_id
                  = last'.device_id
      ]_vars
====
